---- MODULE Spec2Model ----
(***************************************************************************)
(* Model of scripts/analyze_field_presence.py: the regex extraction of     *)
(* self-closing elements, the per-attribute tally, the bucketing and the   *)
(* report loop of main().  Python str values are TLA+ strings; a Python    *)
(* dict is the sequence of its <<key, value>> items in insertion order.    *)
(***************************************************************************)
EXTENDS Integers, Sequences, FiniteSets, TLC

VARIABLES
    pc,           \* position of the run
    xml,          \* the document as authored: a sequence of tags (ghost)
    readable,     \* whether xml_path.read_text() can read the file
    xml_content,  \* main: xml_content
    idx,          \* main: position of the for loop in element_types
    elem_type,    \* main: elem_type / extract_elements: element_name
    elements,     \* the list returned by extract_elements
    field_stats,  \* analyze_fields: field_stats after the tally loop
    results,      \* the dict returned by analyze_fields
    always,       \* categorize_fields: the three returned lists
    sometimes,
    rarely,
    out           \* the lines written to standard output, one per print()

vars == <<pc, xml, readable, xml_content, idx, elem_type, elements,
          field_stats, results, always, sometimes, rarely, out>>

\* ------------------------------------------------------------------ bounds
MaxTags == 2      \* tags in a document
MaxElems == 3     \* occurrences handed to analyze_fields

\* ------------------------------------------------------- program constants
SampleCap == 5    \* len(sample_values) < 5
TruncLen == 50    \* value[:50]
ReportCap == 3    \* list(sample_values)[:3]
PrintCap == 2     \* stats['samples'][:2]

\* ----------------------------------------------------------------- strings
Min(a, b) == IF a < b THEN a ELSE b

Ch(s, i) == SubSeq(s, i, i)

\* s[:n]
Take(s, n) == SubSeq(s, 1, Min(n, Len(s)))

\* s[p:]
Drop(s, p) == SubSeq(s, p, Len(s))

\* regex \s and str.strip(): the whitespace characters
Whitespace == {" ", "\t", "\n", "\r"}

\* regex \w: [A-Za-z0-9_], listed in code-point order
CodeOrder ==
    <<"0","1","2","3","4","5","6","7","8","9",
      "A","B","C","D","E","F","G","H","I","J","K","L","M",
      "N","O","P","Q","R","S","T","U","V","W","X","Y","Z",
      "_",
      "a","b","c","d","e","f","g","h","i","j","k","l","m",
      "n","o","p","q","r","s","t","u","v","w","x","y","z">>

WordChars == {CodeOrder[k] : k \in DOMAIN CodeOrder}

Code(c) == CHOOSE k \in DOMAIN CodeOrder : CodeOrder[k] = c

\* whether lit occurs in s at position p
LitAt(s, p, lit) ==
    /\ p >= 1
    /\ p + Len(lit) - 1 <= Len(s)
    /\ SubSeq(s, p, p + Len(lit) - 1) = lit

\* the length of the run of characters of set cs that starts at p
RECURSIVE Run(_, _, _)
Run(s, p, cs) ==
    IF p <= Len(s) /\ Ch(s, p) \in cs THEN 1 + Run(s, p + 1, cs) ELSE 0

\* the length of the run of characters other than c that starts at p
RECURSIVE RunNot(_, _, _)
RunNot(s, p, c) ==
    IF p <= Len(s) /\ Ch(s, p) # c THEN 1 + RunNot(s, p + 1, c) ELSE 0

\* str.strip()
RECURSIVE LStrip(_)
LStrip(s) == IF Len(s) > 0 /\ Ch(s, 1) \in Whitespace THEN LStrip(Drop(s, 2)) ELSE s

RECURSIVE RStrip(_)
RStrip(s) ==
    IF Len(s) > 0 /\ Ch(s, Len(s)) \in Whitespace
    THEN RStrip(SubSeq(s, 1, Len(s) - 1)) ELSE s

Strip(s) == RStrip(LStrip(s))

\* Python's str ordering: lexicographic by code point (attribute names are \w+)
RECURSIVE StrLess(_, _)
StrLess(a, b) ==
    IF Len(b) = 0 THEN FALSE
    ELSE IF Len(a) = 0 THEN TRUE
    ELSE IF Ch(a, 1) = Ch(b, 1) THEN StrLess(Drop(a, 2), Drop(b, 2))
    ELSE Code(Ch(a, 1)) < Code(Ch(b, 1))

\* ------------------------------------------------------------------- dicts
Keys(d) == {d[k][1] : k \in DOMAIN d}

HasKey(d, key) == \E k \in DOMAIN d : d[k][1] = key

Get(d, key) == d[CHOOSE k \in DOMAIN d : d[k][1] = key][2]

\* d[key] = value: a new key goes last, an old key keeps its place
Put(d, key, value) ==
    IF HasKey(d, key)
    THEN [k \in DOMAIN d |-> IF d[k][1] = key THEN <<key, value>> ELSE d[k]]
    ELSE Append(d, <<key, value>>)

\* -------------------------------------------------------- extract_elements
\* One attempt of  <NAME\s+([^>]*?)\s*/>  at position p, in the backtracking
\* order of the engine: \s+ greedy (longest first), the group lazy (shortest
\* first), \s* greedy.  ws, m, t are the lengths the three parts take.
TagFits(s, q, ws, m, t) ==
    /\ ws >= 1 /\ ws <= Run(s, q, Whitespace)
    /\ m <= RunNot(s, q + ws, ">")
    /\ t <= Run(s, q + ws + m, Whitespace)
    /\ LitAt(s, q + ws + m + t, "/>")

\* the group lengths that let the rest of the pattern match after ws blanks
GroupFits(s, q, ws) ==
    {m \in 0..RunNot(s, q + ws, ">") :
        \E t \in 0..Run(s, q + ws + m, Whitespace) : TagFits(s, q, ws, m, t)}

TagMatchAt(s, element_name, p) ==
    LET q == p + 1 + Len(element_name)
        wss == {ws \in 1..Run(s, q, Whitespace) : GroupFits(s, q, ws) # {}}
    IN  IF ~LitAt(s, p, "<" \o element_name) \/ wss = {}
        THEN [ok |-> FALSE, group |-> "", end |-> p]
        ELSE LET ws == CHOOSE w \in wss : \A w2 \in wss : w2 <= w
                 ms == GroupFits(s, q, ws)
                 m  == CHOOSE a \in ms : \A a2 \in ms : a <= a2
                 ts == {t \in 0..Run(s, q + ws + m, Whitespace) : TagFits(s, q, ws, m, t)}
                 t  == CHOOSE a \in ts : \A a2 \in ts : a2 <= a
             IN  [ok |-> TRUE,
                  group |-> SubSeq(s, q + ws, q + ws + m - 1),
                  end |-> q + ws + m + t + 2]

\* re.findall(pattern, xml_content): leftmost match, then on from its end
RECURSIVE FindAll(_, _, _)
FindAll(s, element_name, p) ==
    IF p > Len(s) THEN <<>>
    ELSE LET r == TagMatchAt(s, element_name, p)
         IN  IF r.ok THEN <<r.group>> \o FindAll(s, element_name, r.end)
             ELSE FindAll(s, element_name, p + 1)

\* One attempt of  (\w+)="([^"]*)"  at position p: \w+ greedy, then ="
\* then the value up to the next double quote, which must exist.
AttrFits(s, p, w) ==
    /\ w >= 1 /\ w <= Run(s, p, WordChars)
    /\ LitAt(s, p + w, "=\"")
    /\ LitAt(s, p + w + 2 + RunNot(s, p + w + 2, "\""), "\"")

AttrMatchAt(s, p) ==
    LET wsz == {w \in 1..Run(s, p, WordChars) : AttrFits(s, p, w)}
    IN  IF wsz = {} THEN [ok |-> FALSE, name |-> "", value |-> "", end |-> p]
        ELSE LET w == CHOOSE a \in wsz : \A a2 \in wsz : a2 <= a
                 v == RunNot(s, p + w + 2, "\"")
             IN  [ok |-> TRUE,
                  name |-> SubSeq(s, p, p + w - 1),
                  value |-> SubSeq(s, p + w + 2, p + w + 1 + v),
                  end |-> p + w + 3 + v]

\* for attr_match in re.finditer(...): attrs[group(1)] = group(2)
RECURSIVE AttrLoop(_, _, _)
AttrLoop(attrs, s, p) ==
    IF p > Len(s) THEN attrs
    ELSE LET r == AttrMatchAt(s, p)
         IN  IF r.ok THEN AttrLoop(Put(attrs, r.name, r.value), s, r.end)
             ELSE AttrLoop(attrs, s, p + 1)

extract_elements(content, element_name) ==
    LET matches == FindAll(content, element_name, 1)
    IN  [k \in DOMAIN matches |-> AttrLoop(<<>>, matches[k], 1)]

\* ---------------------------------------------------------- analyze_fields
\* defaultdict(lambda: {...}): the value a missing field starts from
DefaultStats == [present |-> 0, non_empty |-> 0, sample_values |-> {}]

\* a variant: the test without the strip
NonEmptyUnstripped(value) == Len(value) > 0

\* if value and value.strip()
NonEmpty(value) == Len(value) > 0 /\ Len(Strip(value)) > 0

\* len(field_stats[field]['sample_values']) < 5
HasRoom(sample_values) == Cardinality(sample_values) < SampleCap

\* a variant: the sample kept whole
TruncateNot(value) == value

\* value[:50]
Truncate(value) == Take(value, TruncLen)

\* the body of the inner loop for one (field, value) item
Tally(stats, field, value) ==
    LET old == IF HasKey(stats, field) THEN Get(stats, field) ELSE DefaultStats
        hit == NonEmpty(value)
    IN  Put(stats, field,
            [present |-> old.present + 1,
             non_empty |-> old.non_empty + (IF hit THEN 1 ELSE 0),
             sample_values |->
                 IF hit /\ HasRoom(old.sample_values)
                 THEN old.sample_values \cup {Truncate(value)}
                 ELSE old.sample_values])

\* for field, value in elem.items()
RECURSIVE ItemLoop(_, _, _)
ItemLoop(stats, elem, k) ==
    IF k > Len(elem) THEN stats
    ELSE ItemLoop(Tally(stats, elem[k][1], elem[k][2]), elem, k + 1)

\* for elem in elements
RECURSIVE ElemLoop(_, _, _)
ElemLoop(stats, elems, k) ==
    IF k > Len(elems) THEN stats
    ELSE ElemLoop(ItemLoop(stats, elems[k], 1), elems, k + 1)

TallyLoop(elems) == ElemLoop(<<>>, elems, 1)

RECURSIVE Gcd(_, _)
Gcd(a, b) == IF b = 0 THEN a ELSE Gcd(b, a % b)

\* (count / total) * 100: the float is modelled by the exact fraction
\* <<numerator, denominator>> in lowest terms
Percent(count, total) ==
    LET g == Gcd(count * 100, total)
    IN  <<(count * 100) \div g, total \div g>>

\* list(a_set): a set of str iterates in hash order, and str hashes are
\* salted per process, so any order of the members can come out
ListOf(S) ==
    {l \in [1..Cardinality(S) -> S] : \A a, b \in DOMAIN l : a # b => l[a] # l[b]}

\* list(stats['sample_values'])[:3]
Samples(sample_values) == {Take(l, ReportCap) : l \in ListOf(sample_values)}

\* the results[field] entries one field can get
FieldResults(stats, total) ==
    {[present |-> stats.present,
      present_pct |-> Percent(stats.present, total),
      non_empty |-> stats.non_empty,
      non_empty_pct |-> IF stats.present > 0 THEN Percent(stats.non_empty, total)
                        ELSE <<0, 1>>,
      samples |-> smp] : smp \in Samples(stats.sample_values)}

\* for field, stats in field_stats.items(): results[field] = {...}
RECURSIVE ResultsLoop(_, _, _)
ResultsLoop(stats, total, k) ==
    IF k > Len(stats) THEN {<<>>}
    ELSE {<<<<stats[k][1], r>>>> \o rest :
              r \in FieldResults(stats[k][2], total),
              rest \in ResultsLoop(stats, total, k + 1)}

\* the set of dicts a call can return
analyze_fields(elems) ==
    IF Len(elems) = 0 THEN {<<>>}
    ELSE ResultsLoop(TallyLoop(elems), Len(elems), 1)

\* ------------------------------------------------------- categorize_fields
AlwaysPct == <<999, 10>>      \* 99.9
SometimesPct == <<50, 1>>     \* 50

\* a >= b on fractions with positive denominators
Geq(a, b) == a[1] * b[2] >= b[1] * a[2]

\* a variant: the items in dict order
Unsorted(d) == d

\* sorted(results.items()): the keys are distinct, so the key alone orders
RECURSIVE Sorted(_)
Sorted(d) ==
    IF Len(d) = 0 THEN <<>>
    ELSE LET k == CHOOSE a \in DOMAIN d :
                      \A b \in DOMAIN d : b # a => StrLess(d[a][1], d[b][1])
         IN  <<d[k]>> \o Sorted(SubSeq(d, 1, k - 1) \o SubSeq(d, k + 1, Len(d)))

\* a variant: the second threshold strict
PlaceStrict(b, item) ==
    LET pct == item[2].non_empty_pct
    IN  IF Geq(pct, AlwaysPct) THEN <<Append(b[1], item), b[2], b[3]>>
        ELSE IF ~Geq(SometimesPct, pct) THEN <<b[1], Append(b[2], item), b[3]>>
        ELSE <<b[1], b[2], Append(b[3], item)>>

\* the if / elif / else of the loop body; b is <<always, sometimes, rarely>>
Place(b, item) ==
    LET pct == item[2].non_empty_pct
    IN  IF Geq(pct, AlwaysPct) THEN <<Append(b[1], item), b[2], b[3]>>
        ELSE IF Geq(pct, SometimesPct) THEN <<b[1], Append(b[2], item), b[3]>>
        ELSE <<b[1], b[2], Append(b[3], item)>>

RECURSIVE PlaceLoop(_, _, _)
PlaceLoop(b, items, k) ==
    IF k > Len(items) THEN b ELSE PlaceLoop(Place(b, items[k]), items, k + 1)

categorize_fields(res, total) == PlaceLoop(<<<<>>, <<>>, <<>>>>, Sorted(res), 1)

\* ---------------------------------------------------------- print_category
\* {pct:5.1f}: the percentage in tenths, rounded
Tenths(pct) == (20 * pct[1] + pct[2]) \div (2 * pct[2])

FieldLine(item, total) ==
    <<"field", item[1], Tenths(item[2].non_empty_pct), item[2].non_empty, total,
      Take(item[2].samples, PrintCap)>>

print_category(name, fields, total) ==
    <<<<"rule">>, <<"title", name, Len(fields)>>, <<"rule">>>>
        \o [k \in DOMAIN fields |-> FieldLine(fields[k], total)]

\* --------------------------------------------------------------- documents
\* A tag is [name, attrs, close]: attrs is the attribute list as written
\* (distinct names), close is the text that ends the tag.
RECURSIVE RenderAttrs(_, _)
RenderAttrs(attrs, k) ==
    IF k > Len(attrs) THEN ""
    ELSE " " \o attrs[k][1] \o "=\"" \o attrs[k][2] \o "\"" \o RenderAttrs(attrs, k + 1)

RenderTag(t) == "<" \o t.name \o RenderAttrs(t.attrs, 1) \o t.close

\* the text of the file: one self-closing element per line
RECURSIVE Render(_)
Render(doc) ==
    IF Len(doc) = 0 THEN "" ELSE RenderTag(Head(doc)) \o "\n" \o Render(Tail(doc))

SeqsUpTo(S, n) == UNION {[1..k -> S] : k \in 0..n}

element_types == <<"Trade", "OpenPosition", "CashTransaction", "CorporateAction">>

\* the documents of a run of main
MainTags ==
    [name : {element_types[k] : k \in DOMAIN element_types},
     attrs : {<<>>, <<<<"id", "1">>, <<"qty", "">>>>, <<<<"id", "2">>>>},
     close : {" />"}]

MainDocs == SeqsUpTo(MainTags, MaxTags)

\* the documents and tag names extract_elements is applied to
ExtractTags ==
    [name : {"Trade", "Trades", "OpenPosition"},
     attrs : {<<>>,
              <<<<"id", "1">>>>,
              <<<<"id", "1">>, <<"qty", "">>>>,
              <<<<"qty", "x y">>, <<"id", "1">>>>,
              <<<<"id", "a>b">>>>},
     close : {"/>", " />"}]

ExtractDocs == SeqsUpTo(ExtractTags, MaxTags)

ExtractNames == {"Trade", "OpenPosition"}

\* the occurrence lists analyze_fields is applied to
RECURSIVE Rep(_, _)
Rep(c, n) == IF n = 0 THEN "" ELSE c \o Rep(c, n - 1)

\* two values longer than the truncation that agree on what it keeps
LongA == Rep("x", TruncLen) \o "aaaaaaaaaa"
LongB == Rep("x", TruncLen) \o "bbbbbbbbbb"

QtyVals == {"10", " 7 ", "", " ", LongA, LongB}
PairVals == {"10", ""}

Occurrences ==
    {<<>>, <<<<"id", "1">>>>}
        \cup {<<<<"qty", v>>>> : v \in QtyVals}
        \cup {<<<<"id", "1">>, <<"qty", v>>>> : v \in PairVals}
        \cup {<<<<"qty", v>>, <<"id", "1">>>> : v \in PairVals}

\* one more occurrence than the sample cap, all values distinct, in every order
RunVals == {"1", "2", "3", "4", "5", "6"}

LongRuns ==
    {[k \in DOMAIN l |-> <<<<"qty", l[k]>>>>] :
        l \in {r \in [1..(SampleCap + 1) -> RunVals] :
                  \A a, b \in DOMAIN r : a # b => r[a] # r[b]}}

ElementLists == SeqsUpTo(Occurrences, MaxElems) \cup LongRuns

\* -------------------------------------------------------------------- main
\* print(f"Reading {xml_path}...")
PrintReading ==
    /\ pc = "start"
    /\ out' = Append(out, <<"reading">>)
    /\ pc' = "read"
    /\ UNCHANGED <<xml, readable, xml_content, idx, elem_type, elements,
                   field_stats, results, always, sometimes, rarely>>

\* xml_content = xml_path.read_text()
ReadOk ==
    /\ pc = "read"
    /\ readable
    /\ xml_content' = Render(xml)
    /\ idx' = 1
    /\ pc' = "loop"
    /\ UNCHANGED <<xml, readable, elem_type, elements, field_stats, results,
                   always, sometimes, rarely, out>>

\* a variant: the error swallowed, the run goes on with an empty document
ReadFailSwallowed ==
    /\ pc = "read"
    /\ ~readable
    /\ xml_content' = ""
    /\ idx' = 1
    /\ pc' = "loop"
    /\ UNCHANGED <<xml, readable, elem_type, elements, field_stats, results,
                   always, sometimes, rarely, out>>

\* read_text() raises: nothing catches it, the run ends with a traceback
ReadFail ==
    /\ pc = "read"
    /\ ~readable
    /\ pc' = "failed"
    /\ UNCHANGED <<xml, readable, xml_content, idx, elem_type, elements,
                   field_stats, results, always, sometimes, rarely, out>>

\* for elem_type in element_types: the three header prints
LoopHeader ==
    /\ pc = "loop"
    /\ idx <= Len(element_types)
    /\ elem_type' = element_types[idx]
    /\ out' = out \o <<<<"hashes">>, <<"type", element_types[idx]>>, <<"hashes">>>>
    /\ pc' = "extract"
    /\ UNCHANGED <<xml, readable, xml_content, idx, elements, field_stats,
                   results, always, sometimes, rarely>>

\* the for loop is exhausted
LoopEnd ==
    /\ pc = "loop"
    /\ idx > Len(element_types)
    /\ pc' = "done"
    /\ UNCHANGED <<xml, readable, xml_content, idx, elem_type, elements,
                   field_stats, results, always, sometimes, rarely, out>>

\* a variant: no guard for an empty list
AfterFoundUnguarded(total) == "analyze"

\* a variant: break in place of continue
AfterFoundBreak(total) == IF total = 0 THEN "done" ELSE "analyze"

\* if total == 0: continue
AfterFound(total) == IF total = 0 THEN "loop" ELSE "analyze"

\* elements = extract_elements(...); total = len(elements); print(Found ...)
ExtractFound ==
    /\ pc = "extract"
    /\ LET els == extract_elements(xml_content, elem_type)
           total == Len(els)
       IN  /\ elements' = els
           /\ out' = Append(out, <<"found", total, elem_type>>)
           /\ pc' = AfterFound(total)
           /\ idx' = IF AfterFound(total) = "analyze" THEN idx ELSE idx + 1
    /\ UNCHANGED <<xml, readable, xml_content, elem_type, field_stats, results,
                   always, sometimes, rarely>>

\* results = analyze_fields(elements)
Analyze ==
    /\ pc = "analyze"
    /\ field_stats' = TallyLoop(elements)
    /\ results' \in analyze_fields(elements)
    /\ pc' = "categorize"
    /\ UNCHANGED <<xml, readable, xml_content, idx, elem_type, elements,
                   always, sometimes, rarely, out>>

\* always, sometimes, rarely = categorize_fields(results, total)
Categorize ==
    /\ pc = "categorize"
    /\ LET b == categorize_fields(results, Len(elements))
       IN  /\ always' = b[1]
           /\ sometimes' = b[2]
           /\ rarely' = b[3]
    /\ pc' = "print"
    /\ UNCHANGED <<xml, readable, xml_content, idx, elem_type, elements,
                   field_stats, results, out>>

\* the three print_category calls, then the next element type
PrintCategories ==
    /\ pc = "print"
    /\ out' = out \o print_category("ALWAYS", always, Len(elements))
                  \o print_category("SOMETIMES", sometimes, Len(elements))
                  \o print_category("RARELY", rarely, Len(elements))
    /\ idx' = idx + 1
    /\ pc' = "loop"
    /\ UNCHANGED <<xml, readable, xml_content, elem_type, elements, field_stats,
                   results, always, sometimes, rarely>>

\* a run of main() on a file that holds a document, or cannot be read
Init ==
    /\ pc = "start"
    /\ xml \in MainDocs
    /\ readable \in (IF xml = <<>> THEN BOOLEAN ELSE {TRUE})
    /\ xml_content = ""
    /\ idx = 0
    /\ elem_type = ""
    /\ elements = <<>>
    /\ field_stats = <<>>
    /\ results = <<>>
    /\ always = <<>>
    /\ sometimes = <<>>
    /\ rarely = <<>>
    /\ out = <<>>

Next ==
    \/ PrintReading
    \/ ReadOk
    \/ ReadFail
    \/ LoopHeader
    \/ LoopEnd
    \/ ExtractFound
    \/ Analyze
    \/ Categorize
    \/ PrintCategories

Spec == Init /\ [][Next]_vars

\* -------------------------------------------- extract_elements on its own
ExtractCall ==
    /\ pc = "extract"
    /\ elements' = extract_elements(xml_content, elem_type)
    /\ pc' = "extracted"
    /\ UNCHANGED <<xml, readable, xml_content, idx, elem_type, field_stats,
                   results, always, sometimes, rarely, out>>

InitExtract ==
    /\ pc = "extract"
    /\ xml \in ExtractDocs
    /\ readable = TRUE
    /\ xml_content = Render(xml)
    /\ idx = 0
    /\ elem_type \in ExtractNames
    /\ elements = <<>>
    /\ field_stats = <<>>
    /\ results = <<>>
    /\ always = <<>>
    /\ sometimes = <<>>
    /\ rarely = <<>>
    /\ out = <<>>

NextExtract == ExtractCall

SpecExtract == InitExtract /\ [][NextExtract]_vars

\* ------------------------- analyze_fields and categorize_fields on their own
InitAnalyze ==
    /\ pc = "analyze"
    /\ xml = <<>>
    /\ readable = TRUE
    /\ xml_content = ""
    /\ idx = 0
    /\ elem_type = ""
    /\ elements \in ElementLists
    /\ field_stats = <<>>
    /\ results = <<>>
    /\ always = <<>>
    /\ sometimes = <<>>
    /\ rarely = <<>>
    /\ out = <<>>

NextAnalyze == Analyze \/ Categorize

SpecAnalyze == InitAnalyze /\ [][NextAnalyze]_vars

\* ------------------------------------------------------------------ claims
\* what the claims measure the code against, stated without the code's loops

\* the tags of the document named name, as attribute mappings in document order
RECURSIVE TagsNamed(_, _)
TagsNamed(doc, name) ==
    IF Len(doc) = 0 THEN <<>>
    ELSE (IF Head(doc).name = name THEN <<Head(doc).attrs>> ELSE <<>>)
             \o TagsNamed(Tail(doc), name)

\* a value with nothing left once leading and trailing whitespace is removed
IsBlank(v) == \A i \in 1..Len(v) : Ch(v, i) \in Whitespace

\* s is the first TruncLen characters of v
IsPrefix50(s, v) == Len(s) = Min(TruncLen, Len(v)) /\ s = SubSeq(v, 1, Len(s))

Having(elems, name) == {j \in DOMAIN elems : HasKey(elems[j], name)}

HavingValue(elems, name) ==
    {j \in Having(elems, name) : ~IsBlank(Get(elems[j], name))}

Analyzed == pc \in {"categorize", "print"}

\* C1: extract_elements returns exactly one attribute mapping per self-closing
\* tag named T, in document order (so as many as there are such tags), and the
\* empty sequence on the empty document.
C1_OneMappingPerTag ==
    pc = "extracted" => elements = TagsNamed(xml, elem_type)

\* C9: a tag of the requested name without attributes, written <Tag/> or
\* <Tag />, comes back as one occurrence with an empty mapping.
C9_EmptyMappingPerBareTag ==
    pc = "extracted" =>
        Cardinality({k \in DOMAIN elements : elements[k] = <<>>})
            = Cardinality({k \in DOMAIN xml :
                              xml[k].name = elem_type /\ xml[k].attrs = <<>>})

\* C2: for a non-empty list of occurrences, there is a statistic for exactly
\* the names that occur; present counts the occurrences with the name,
\* non_empty those whose value is not blank, and the two percentages are
\* count / total * 100.
C2_Counts ==
    (Analyzed /\ Len(elements) > 0) =>
        LET total == Len(elements)
        IN  /\ Keys(results) = UNION {Keys(elements[j]) : j \in DOMAIN elements}
            /\ \A a, b \in DOMAIN results : a # b => results[a][1] # results[b][1]
            /\ \A k \in DOMAIN results :
                   LET name == results[k][1]
                       r == results[k][2]
                   IN  /\ r.present = Cardinality(Having(elements, name))
                       /\ r.non_empty = Cardinality(HavingValue(elements, name))
                       /\ r.present_pct[1] * total = r.present * 100 * r.present_pct[2]
                       /\ r.non_empty_pct[1] * total
                              = r.non_empty * 100 * r.non_empty_pct[2]

\* the scenario of the claim: id in all three, qty "10", "" and absent
C2_Witness ==
    /\ pc = "categorize"
    /\ elements = << <<<<"id", "1">>, <<"qty", "10">>>>,
                     <<<<"id", "1">>, <<"qty", "">>>>,
                     <<<<"id", "1">>>> >>
    /\ Get(results, "id").present = 3 /\ Get(results, "id").non_empty = 3
    /\ Get(results, "qty").present = 2 /\ Get(results, "qty").non_empty = 1

Buckets == <<always, sometimes, rarely>>

\* how often name is listed in bucket b
Listed(b, name) == Cardinality({k \in DOMAIN b : b[k][1] = name})

C4_Samples ==
    Analyzed =>
        /\ \A k \in DOMAIN field_stats :
               LET name == field_stats[k][1]
                   S == field_stats[k][2].sample_values
               IN  /\ Cardinality(S) <= SampleCap
                   /\ \A s \in S : \E j \in HavingValue(elements, name) :
                          IsPrefix50(s, Get(elements[j], name))
                   /\ field_stats[k][2].non_empty
                          = Cardinality(HavingValue(elements, name))
        /\ \A k \in DOMAIN results :
               LET smp == results[k][2].samples
                   S == Get(field_stats, results[k][1]).sample_values
               IN  /\ Len(smp) <= ReportCap
                   /\ \A a \in DOMAIN smp : smp[a] \in S
                   /\ \A a, b \in DOMAIN smp : a # b => smp[a] # smp[b]
                   /\ results[k][2].non_empty
                          = Cardinality(HavingValue(elements, results[k][1]))

\* two 60-character values with the same first 50 characters: one sample of 50
\* characters, and both counted
C4_Witness ==
    /\ pc = "categorize"
    /\ elements = << <<<<"qty", LongA>>>>, <<<<"qty", LongB>>>> >>
    /\ Get(field_stats, "qty").sample_values = {Rep("x", TruncLen)}
    /\ Get(results, "qty").samples = <<Rep("x", TruncLen)>>
    /\ Get(results, "qty").non_empty = 2

\* the distinct truncated non-blank values of name, in first-seen order
RECURSIVE FirstSeen(_, _, _)
FirstSeen(elems, name, k) ==
    IF k = 0 THEN <<>>
    ELSE LET before == FirstSeen(elems, name, k - 1)
             v == Take(Get(elems[k], name), TruncLen)
         IN  IF k \in HavingValue(elems, name)
                 /\ ~\E a \in DOMAIN before : before[a] = v
             THEN Append(before, v) ELSE before

\* C5: the reported samples are the first up to 3 distinct (by truncation)
\* non-blank values of the attribute, in the order the occurrences were
\* processed.
C5_FirstSeenOrder ==
    Analyzed =>
        \A k \in DOMAIN results :
            results[k][2].samples
                = Take(FirstSeen(elements, results[k][1], Len(elements)), ReportCap)

\* C10: within each bucket the names ascend.
C10_BucketsSorted ==
    pc = "print" =>
        \A i \in 1..3 : \A a, b \in DOMAIN Buckets[i] :
            a < b => StrLess(Buckets[i][a][1], Buckets[i][b][1])

\* qty is seen before id, both land in Always, and id is listed first
C10_Witness ==
    /\ pc = "print"
    /\ Len(results) = 2 /\ results[1][1] = "qty" /\ results[2][1] = "id"
    /\ Len(always) = 2 /\ always[1][1] = "id" /\ always[2][1] = "qty"

\* the element types without a tag in the document
ZeroTypes ==
    {t \in {element_types[k] : k \in DOMAIN element_types} :
        Len(TagsNamed(xml, t)) = 0}

Printed(line) == \E k \in DOMAIN out : out[k] = line

\* C6: for an element type without occurrences the run prints "Found 0 <Type>
\* elements" and no section, and never reaches the analysis (no division);
\* analyze_fields returns no statistics for the empty list.
C6_ZeroOccurrences ==
    /\ analyze_fields(<<>>) = {<<>>}
    /\ pc \in {"analyze", "categorize", "print"} => elem_type \notin ZeroTypes
    /\ \A k \in DOMAIN out :
           (out[k][1] = "type" /\ out[k][2] \in ZeroTypes) =>
               /\ k + 2 <= Len(out) => out[k + 2] = <<"found", 0, out[k][2]>>
               /\ k + 3 <= Len(out) => out[k + 3] = <<"hashes">>
    /\ pc = "done" => \A t \in ZeroTypes : Printed(<<"found", 0, t>>)

\* a finished run on a document with Trade tags and no CorporateAction tag
C6_Witness ==
    /\ pc = "done"
    /\ "CorporateAction" \in ZeroTypes
    /\ "Trade" \notin ZeroTypes
    /\ Printed(<<"found", 0, "CorporateAction">>)

\* C7 as claimed: when the file cannot be read the run fails with nothing
\* written to standard output and no element type analysed.
C7_NoOutputAtAll ==
    pc = "failed" => (out = <<>> /\ idx = 0 /\ elements = <<>> /\ results = <<>>)

\* C7 as amended: when the file cannot be read the run fails for good after the
\* "Reading ..." line, the only line written; no element type is extracted or
\* analysed.
C7_OnlyReadingLine ==
    ~readable =>
        /\ pc \in {"start", "read", "failed"}
        /\ pc = "start" => out = <<>>
        /\ pc \in {"read", "failed"} => out = <<<<"reading">>>>
        /\ pc = "failed" => ~ENABLED Next
        /\ idx = 0 /\ xml_content = ""
        /\ elements = <<>> /\ field_stats = <<>> /\ results = <<>>

C7_Witness == pc = "failed" /\ ~readable /\ out = <<<<"reading">>>>

\* the position after the section titled name that starts at p; 0 if none does
SectionEnd(o, p, name) ==
    IF p = 0 \/ p + 2 > Len(o) THEN 0
    ELSE IF /\ o[p] = <<"rule">>
            /\ Len(o[p + 1]) = 3 /\ o[p + 1][1] = "title" /\ o[p + 1][2] = name
            /\ o[p + 2] = <<"rule">>
            /\ p + 2 + o[p + 1][3] <= Len(o)
            /\ \A k \in (p + 3)..(p + 2 + o[p + 1][3]) : o[k][1] = "field"
         THEN p + 3 + o[p + 1][3]
         ELSE 0

\* the position after the report of element type t that starts at p; 0 if none
BlockEnd(o, p, t) ==
    IF p = 0 \/ p + 3 > Len(o) THEN 0
    ELSE IF /\ o[p] = <<"hashes">> /\ o[p + 1] = <<"type", t>> /\ o[p + 2] = <<"hashes">>
            /\ Len(o[p + 3]) = 3 /\ o[p + 3][1] = "found" /\ o[p + 3][3] = t
         THEN IF o[p + 3][2] = 0 THEN p + 4
              ELSE SectionEnd(o, SectionEnd(o, SectionEnd(o, p + 4, "ALWAYS"),
                                            "SOMETIMES"), "RARELY")
         ELSE 0

TypeLines == SelectSeq(out, LAMBDA l : l[1] = "type")

\* C8: the element types are reported in the order Trade, OpenPosition,
\* CashTransaction, CorporateAction; a finished run has, after the "Reading"
\* line, for each of the four its header, its "Found N" line and, when N > 0,
\* the sections Always, Sometimes, Rarely in that order, and nothing else.
C8_ReportOrder ==
    /\ Len(TypeLines) <= Len(element_types)
    /\ \A k \in DOMAIN TypeLines : TypeLines[k][2] = element_types[k]
    /\ pc = "done" =>
           /\ out[1] = <<"reading">>
           /\ BlockEnd(out, BlockEnd(out, BlockEnd(out, BlockEnd(out, 2,
                  element_types[1]), element_types[2]), element_types[3]),
                  element_types[4]) = Len(out) + 1

\* a finished run in which Trade has no occurrence and a later type has some
C8_Witness ==
    /\ pc = "done"
    /\ Printed(<<"found", 0, "Trade">>)
    /\ Printed(<<"found", 2, "CashTransaction">>)
    /\ Printed(<<"title", "RARELY", 1>>)

====
